---- MODULE Spec2Model ----
(***************************************************************************)
(* raspsentinel: the device registry (store.py), the ARP block session     *)
(* manager (blocker.py) and their callers.                                 *)
(*                                                                         *)
(* Spec        the registry driven by one flow (the daemon's event loop    *)
(*             calls every Store method synchronously, so each method is   *)
(*             one atomic step).                                           *)
(* SpecThreads the same Store object called by two threads, at the         *)
(*             granularity of its lock (Store._read and Store._write each  *)
(*             take the lock on their own) and of the steps of a write.    *)
(* SpecBlock   ArpSpoofBlocker under asyncio: coroutines interleave at     *)
(*             their await points, sends run in worker threads.            *)
(* SpecProcs   two processes, each with its own Store, on one data         *)
(*             directory.                                                  *)
(* SpecApp     main.py's scan loop and the bot's command handlers on one   *)
(*             event loop (SpecAppLive, SpecAppFair: with fairness).       *)
(* SpecPure    the scanner's vendor normalization and the status functions *)
(*             applied to drawn arguments.                                 *)
(* SpecKeys    the registry addressed by several spellings of one MAC.     *)
(***************************************************************************)
EXTENDS Integers, Sequences, FiniteSets, TLC

VARIABLES
    file,       \* devices.json at the real path: [parses, devices, block_applied]
    clock,      \* datetime.now(timezone.utc), as a counter
    outcome,    \* how the last Store call of the single flow ended: "ok" | "OSError"
    \* --- SpecThreads: one Store object called from several threads
    tmp,        \* devices.json.tmp: <<>> when there is no such file, else <<content>>
    lock,       \* Store._lock: 0 when free, else the thread that holds it
    alive,      \* the process is running (not killed)
    pc,         \* per thread: where it is in the method it runs
    call,       \* per thread: the method it runs and its arguments
    loc,        \* per thread: d, the devices dict it read and changed
    res,        \* per thread: how its method ended
    base,       \* the devices at the real path when the threads' calls began
    readerSaw,  \* what a reader of the real path last got: "nothing" | "document" | "garbage"
    \* --- SpecBlock: ArpSpoofBlocker and the coroutines that call it
    entries,    \* ArpSpoofBlocker._entries: the dict, as its items in insertion order
    tasks,      \* per task slot: the _spoof_loop task and the worker-thread call it made
    cmd,        \* the command flow: the blocker call it runs, or ran last
    phase,      \* "running" | "shutdown" (main's finally runs blocker.shutdown()) | "exited"
    sdKeys,     \* shutdown: the MACs of list(self._entries.keys()) still to unblock
    sdAwait,    \* shutdown: the task slot its unblock awaits, 0 for none
    stopped,    \* MACs whose awaited unblock has returned, and that were not blocked since
    \* main.py and telegram_bot.py: the scan loop and the command handlers
    block_enable,   \* main's block_enable once the blocker has been constructed
    scan,       \* scan_loop: where it is in its cycle, and its locals
    notified,   \* per MAC, the notify_new calls of the current cycle
    op,         \* the last command handled: the reply sent and how _apply ended
    deferred,   \* MACs for which a block command ended in block()'s ValueError
    \* scanner.py, cli.py, telegram_bot.py: functions of their arguments alone
    pure        \* one call of each: its arguments and what it returned

storeVars == <<file, clock, outcome>>
threadVars == <<tmp, lock, alive, pc, call, loc, res, base, readerSaw>>
blockVars == <<entries, tasks, cmd, phase, sdKeys, sdAwait, stopped>>
appVars == <<block_enable, scan, notified, op, deferred>>
pureVars == <<pure>>

\* ------------------------------------------------------------------ bounds
MaxTime == 2
\* task slots: how many _spoof_loop tasks (or their worker-thread calls) exist at once
MaxTasks == 2
\* how many entries one scan result holds at most
MaxSeen == 2
\* whitespace characters on either side of a vendor text
MaxPad == 1

\* ------------------------------------------------------------------ values
\* Python's None, and a key that is not in a dict (dict.get gives None for it).
None == "None"
Missing == "<missing>"
\* a timestamp key (first_seen, last_seen) that is not in the record
NoTime == -1

\* The MAC spellings callers pass, and str.upper() on them.
AllMacInputs == {"aa:01", "AA:01", "aa:02", "AA:02"}
upper(mac) ==
    IF mac = "aa:01" THEN "AA:01"
    ELSE IF mac = "aa:02" THEN "AA:02"
    ELSE IF mac = "aa-01" THEN "AA-01"
    ELSE mac
\* the registry is driven with two spellings of one MAC
MacInputs == {"aa:01", "AA:01"}
Macs == {upper(m) : m \in MacInputs}

IpInputs == {None, "10.0.0.5"}
VendorInputs == {None, "Acme"}
NameInputs == {None, "tv"}
ReasonInputs == {None, "x"}

\* Python truthiness of an optional string
Truthy(s) == s \notin {None, Missing, ""}
\* dict.get(key) on a value that may be missing
Get(v) == IF v = Missing THEN None ELSE v

\* ------------------------------------------------------------------ documents
EmptyDoc == [parses |-> TRUE, devices |-> <<>>, block_applied |-> <<>>]

\* d[m] = rec on a dict d
Put(d, m, rec) == [k \in (DOMAIN d) \cup {m} |-> IF k = m THEN rec ELSE d[k]]

\* Store.upsert_device, the dict it builds from what _read returned; t1 and t2 are
\* its two datetime.now() calls.
upsert_wrong_first_seen(d, mac, ip, vendor, t1, t2) ==
    LET m == upper(mac)
        dev == [name |-> None, first_seen |-> t1, allow |-> FALSE, block |-> FALSE,
                vendor |-> vendor, notes |-> None, ip |-> Missing, last_seen |-> NoTime]
        old == IF m \in DOMAIN d THEN [d[m] EXCEPT !.first_seen = t1] ELSE dev
    IN Put(d, m, [old EXCEPT !.ip = ip,
                             !.vendor = IF Truthy(vendor) THEN vendor ELSE Get(old.vendor),
                             !.last_seen = t2])

\* upsert_device that assigns the vendor it is given, empty or not
upsert_overwrites_vendor(d, mac, ip, vendor, t1, t2) ==
    LET m == upper(mac)
        dev == IF m \in DOMAIN d THEN d[m]
               ELSE [name |-> None, first_seen |-> t1, allow |-> FALSE, block |-> FALSE,
                     vendor |-> vendor, notes |-> None, ip |-> Missing, last_seen |-> NoTime]
    IN Put(d, m, [dev EXCEPT !.ip = ip, !.vendor = vendor, !.last_seen = t2])

upsert_device(d, mac, ip, vendor, t1, t2) ==
    LET m == upper(mac)
        dev == IF m \in DOMAIN d THEN d[m]
               ELSE [name |-> None, first_seen |-> t1, allow |-> FALSE, block |-> FALSE,
                     vendor |-> vendor, notes |-> None, ip |-> Missing, last_seen |-> NoTime]
    IN Put(d, m, [dev EXCEPT !.ip = ip,
                             !.vendor = IF Truthy(vendor) THEN vendor ELSE Get(dev.vendor),
                             !.last_seen = t2])

\* a record made by a command: only name, allow and block are in it
CommandRecord(name, allow, block) ==
    [name |-> name, first_seen |-> NoTime, allow |-> allow, block |-> block,
     vendor |-> Missing, notes |-> Missing, ip |-> Missing, last_seen |-> NoTime]

mark_allow_keeps_block(d, mac, name) ==
    LET m == upper(mac) IN
    IF m \notin DOMAIN d THEN Put(d, m, CommandRecord(name, TRUE, FALSE))
    ELSE Put(d, m, [d[m] EXCEPT !.allow = TRUE,
                                !.name = IF Truthy(name) THEN name ELSE @])

mark_allow(d, mac, name) ==
    LET m == upper(mac) IN
    IF m \notin DOMAIN d THEN Put(d, m, CommandRecord(name, TRUE, FALSE))
    ELSE Put(d, m, [d[m] EXCEPT !.allow = TRUE, !.block = FALSE,
                                !.name = IF Truthy(name) THEN name ELSE @])

mark_block_drops_reason(d, mac, reason) ==
    LET m == upper(mac) IN
    IF m \notin DOMAIN d THEN Put(d, m, CommandRecord(None, FALSE, TRUE))
    ELSE Put(d, m, [d[m] EXCEPT !.block = TRUE, !.allow = FALSE])

mark_block(d, mac, reason) ==
    LET m == upper(mac)
        rec == IF m \notin DOMAIN d THEN CommandRecord(None, FALSE, TRUE)
               ELSE [d[m] EXCEPT !.block = TRUE, !.allow = FALSE]
    IN Put(d, m, IF Truthy(reason) THEN [rec EXCEPT !.notes = reason] ELSE rec)

\* unallow that clears both flags
unallow_clears_both(d, mac) == [d EXCEPT ![upper(mac)].allow = FALSE, ![upper(mac)].block = FALSE]

unallow(d, mac) == [d EXCEPT ![upper(mac)].allow = FALSE]

\* unblock that removes the record
unblock_deletes_record(d, mac) == [k \in DOMAIN d \ {upper(mac)} |-> d[k]]

unblock(d, mac) == [d EXCEPT ![upper(mac)].block = FALSE]

set_name(d, mac, name) == [d EXCEPT ![upper(mac)].name = name]

\* Store.list_devices
list_devices == file.devices

\* Store._write seen from its caller: the document at the real path afterwards.
\* open(tmp, "w") raises when the directory cannot be written, so os.replace is
\* never reached and the real path keeps its document.
write_in_place(f, data, ok) ==
    IF ok THEN [f EXCEPT !.devices = data]
    ELSE [parses |-> FALSE, devices |-> <<>>, block_applied |-> <<>>]

Store_write(f, data, ok) == IF ok THEN [f EXCEPT !.devices = data] ELSE f

\* ------------------------------------------------------------------ Spec
\* Every method below is d = self._read(); ...; self._write(d), run to its end by
\* the single flow. w: whether the data directory can be written during the call.
Commit(data, w) ==
    /\ file' = Store_write(file, data, w)
    /\ outcome' = IF w THEN "ok" ELSE "OSError"

\* a method that returns without writing
NoWrite ==
    /\ file' = file
    /\ outcome' = "ok"

UpsertDevice(mac, ip, vendor, w) ==
    \E t2 \in {clock, clock + 1} :
        /\ t2 <= MaxTime
        /\ clock' = t2
        /\ Commit(upsert_device(file.devices, mac, ip, vendor, clock, t2), w)
        /\ UNCHANGED <<threadVars, blockVars, appVars, pureVars>>

MarkAllow(mac, name, w) ==
    /\ Commit(mark_allow(file.devices, mac, name), w)
    /\ UNCHANGED <<clock, threadVars, blockVars, appVars, pureVars>>

MarkBlock(mac, reason, w) ==
    /\ Commit(mark_block(file.devices, mac, reason), w)
    /\ UNCHANGED <<clock, threadVars, blockVars, appVars, pureVars>>

Unallow(mac, w) ==
    /\ IF upper(mac) \in DOMAIN file.devices
          THEN Commit(unallow(file.devices, mac), w) ELSE NoWrite
    /\ UNCHANGED <<clock, threadVars, blockVars, appVars, pureVars>>

Unblock(mac, w) ==
    /\ IF upper(mac) \in DOMAIN file.devices
          THEN Commit(unblock(file.devices, mac), w) ELSE NoWrite
    /\ UNCHANGED <<clock, threadVars, blockVars, appVars, pureVars>>

SetName(mac, name, w) ==
    /\ IF upper(mac) \in DOMAIN file.devices
          THEN Commit(set_name(file.devices, mac, name), w) ELSE NoWrite
    /\ UNCHANGED <<clock, threadVars, blockVars, appVars, pureVars>>

\* time passes between two calls
Tick ==
    /\ clock < MaxTime
    /\ clock' = clock + 1
    /\ UNCHANGED <<file, outcome, threadVars, blockVars, appVars, pureVars>>

\* ------------------------------------------------------------------ SpecThreads
\* Two threads call methods of one Store. _read and _write take self._lock each on
\* their own (store.py:17, 22), so a method is: _read under the lock; the change, on
\* the thread's own dict; _write under the lock: open the temp file, dump, os.replace.
Threads == {1, 2}

NoCall == [op |-> "none", mac |-> "", a |-> None, b |-> None, t1 |-> 0, t2 |-> 0]

\* the calls the threads make
ThreadCalls ==
    { [op |-> "upsert_device", mac |-> "aa:01", a |-> "10.0.0.5", b |-> "Acme", t1 |-> 0, t2 |-> 0],
      [op |-> "mark_allow", mac |-> "AA:01", a |-> None, b |-> None, t1 |-> 0, t2 |-> 0],
      [op |-> "mark_block", mac |-> "AA:02", a |-> "x", b |-> None, t1 |-> 0, t2 |-> 0],
      [op |-> "unblock", mac |-> "AA:02", a |-> None, b |-> None, t1 |-> 0, t2 |-> 0],
      [op |-> "unallow", mac |-> "AA:01", a |-> None, b |-> None, t1 |-> 0, t2 |-> 0],
      [op |-> "set_name", mac |-> "AA:02", a |-> "tv", b |-> None, t1 |-> 0, t2 |-> 0] }

\* whether the method reaches self._write(d) on the dict d it read
Writes(c, d) ==
    c.op \in {"upsert_device", "mark_allow", "mark_block"} \/ upper(c.mac) \in DOMAIN d

\* the dict the method hands to _write
Changed(c, d) ==
    CASE c.op = "upsert_device" -> upsert_device(d, c.mac, c.a, c.b, c.t1, c.t2)
      [] c.op = "mark_allow" -> mark_allow(d, c.mac, c.a)
      [] c.op = "mark_block" -> mark_block(d, c.mac, c.a)
      [] c.op = "unallow" -> unallow(d, c.mac)
      [] c.op = "unblock" -> unblock(d, c.mac)
      [] c.op = "set_name" -> set_name(d, c.mac, c.a)

\* the method run alone, from its read to its write
Apply(c, d) == IF Writes(c, d) THEN Changed(c, d) ELSE d

\* a file that was opened for writing and not written to its end
Truncated == [parses |-> FALSE, devices |-> <<>>, block_applied |-> <<>>]
Document(d) == [parses |-> TRUE, devices |-> d, block_applied |-> <<>>]

\* a thread enters a Store method
Call(t, c) ==
    /\ alive /\ pc[t] = "idle"
    /\ pc' = [pc EXCEPT ![t] = "read"]
    /\ call' = [call EXCEPT ![t] = c]
    /\ UNCHANGED <<file, clock, outcome, tmp, lock, loc, res, base, readerSaw, alive>>
    /\ UNCHANGED <<blockVars, appVars, pureVars>>

\* d = self._read(), then the method's change of d (the timestamps are taken here)
Read(t) ==
    /\ alive /\ pc[t] = "read" /\ lock = 0
    /\ LET c == [call[t] EXCEPT !.t1 = clock, !.t2 = clock]
           d == file.devices
       IN /\ call' = [call EXCEPT ![t] = c]
          /\ IF Writes(c, d)
                THEN /\ loc' = [loc EXCEPT ![t] = Changed(c, d)]
                     /\ pc' = [pc EXCEPT ![t] = "write"]
                     /\ res' = res
                ELSE /\ loc' = [loc EXCEPT ![t] = d]
                     /\ pc' = [pc EXCEPT ![t] = "done"]
                     /\ res' = [res EXCEPT ![t] = "ok"]
    /\ UNCHANGED <<file, clock, outcome, tmp, lock, base, readerSaw, alive>>
    /\ UNCHANGED <<blockVars, appVars, pureVars>>

\* _write: with self._lock
Acquire(t) ==
    /\ alive /\ pc[t] = "write" /\ lock = 0
    /\ lock' = t
    /\ pc' = [pc EXCEPT ![t] = "open"]
    /\ UNCHANGED <<file, clock, outcome, tmp, call, loc, res, base, readerSaw, alive>>
    /\ UNCHANGED <<blockVars, appVars, pureVars>>

\* the same step of a _write that opens the real path instead of the temp file
OpenInPlace(t, w) ==
    /\ alive /\ pc[t] = "open" /\ lock = t
    /\ IF w THEN /\ file' = Truncated
                 /\ tmp' = <<Truncated>>
                 /\ pc' = [pc EXCEPT ![t] = "dump"]
                 /\ UNCHANGED <<lock, res>>
            ELSE /\ lock' = 0
                 /\ pc' = [pc EXCEPT ![t] = "done"]
                 /\ res' = [res EXCEPT ![t] = "OSError"]
                 /\ UNCHANGED <<file, tmp>>
    /\ UNCHANGED <<clock, outcome, call, loc, base, readerSaw, alive>>
    /\ UNCHANGED <<blockVars, appVars, pureVars>>

\* _write: open(tmp, "w"): truncates the temp file, or raises (the lock is released
\* as the with block is left)
OpenTmp(t, w) ==
    /\ alive /\ pc[t] = "open" /\ lock = t
    /\ IF w THEN /\ tmp' = <<Truncated>>
                 /\ pc' = [pc EXCEPT ![t] = "dump"]
                 /\ UNCHANGED <<lock, res>>
            ELSE /\ lock' = 0
                 /\ pc' = [pc EXCEPT ![t] = "done"]
                 /\ res' = [res EXCEPT ![t] = "OSError"]
                 /\ UNCHANGED tmp
    /\ UNCHANGED <<file, clock, outcome, call, loc, base, readerSaw, alive>>
    /\ UNCHANGED <<blockVars, appVars, pureVars>>

\* _write: json.dump(data, f) to its end, and the file is closed
Dump(t) ==
    /\ alive /\ pc[t] = "dump" /\ lock = t
    /\ tmp' = <<Document(loc[t])>>
    /\ pc' = [pc EXCEPT ![t] = "replace"]
    /\ UNCHANGED <<file, clock, outcome, lock, call, loc, res, base, readerSaw, alive>>
    /\ UNCHANGED <<blockVars, appVars, pureVars>>

\* _write: os.replace(tmp, self.path), and the lock is released
Replace(t) ==
    /\ alive /\ pc[t] = "replace" /\ lock = t
    /\ file' = tmp[1]
    /\ tmp' = <<>>
    /\ lock' = 0
    /\ pc' = [pc EXCEPT ![t] = "done"]
    /\ res' = [res EXCEPT ![t] = "ok"]
    /\ UNCHANGED <<clock, outcome, call, loc, base, readerSaw, alive>>
    /\ UNCHANGED <<blockVars, appVars, pureVars>>

\* both methods have returned: the threads make their next calls
NextRound ==
    /\ alive /\ \A t \in Threads : pc[t] = "done"
    /\ base' = file.devices
    /\ pc' = [t \in Threads |-> "idle"]
    /\ call' = [t \in Threads |-> NoCall]
    /\ loc' = [t \in Threads |-> <<>>]
    /\ res' = [t \in Threads |-> "ok"]
    /\ UNCHANGED <<file, clock, outcome, tmp, lock, readerSaw, alive>>
    /\ UNCHANGED <<blockVars, appVars, pureVars>>

\* the process is killed, wherever its threads are
Kill ==
    /\ alive
    /\ alive' = FALSE
    /\ UNCHANGED <<file, clock, outcome, tmp, lock, pc, call, loc, res, base, readerSaw>>
    /\ UNCHANGED <<blockVars, appVars, pureVars>>

\* another process opens the real path and parses it, at any moment
ExternalRead ==
    /\ readerSaw' = IF file.parses THEN "document" ELSE "garbage"
    /\ UNCHANGED <<file, clock, outcome, tmp, lock, alive, pc, call, loc, res, base>>
    /\ UNCHANGED <<blockVars, appVars, pureVars>>

ThreadsNext ==
    \/ \E t \in Threads, c \in ThreadCalls : Call(t, c)
    \/ \E t \in Threads : Read(t)
    \/ \E t \in Threads : Acquire(t)
    \/ \E t \in Threads, w \in BOOLEAN : OpenTmp(t, w)
    \/ \E t \in Threads : Dump(t)
    \/ \E t \in Threads : Replace(t)
    \/ NextRound
    \/ Kill
    \/ ExternalRead

\* ------------------------------------------------------------------ SpecProcs
\* Two processes, the daemon and a CLI command, each with its own Store on the same
\* data directory. self._lock is an object of the process, so it excludes nothing
\* between them; each process has one flow, which always finds its own lock free. Both
\* write the same temp path. t is the process, pc[t] = "dump_real" a process whose
\* open temp file has been renamed to the real path by the other's os.replace.

\* d = self._read(): json.load raises when the real path does not hold a document
ProcRead(t) ==
    /\ alive /\ pc[t] = "read"
    /\ LET c == [call[t] EXCEPT !.t1 = clock, !.t2 = clock]
           d == file.devices
       IN IF ~file.parses
             THEN /\ pc' = [pc EXCEPT ![t] = "done"]
                  /\ res' = [res EXCEPT ![t] = "JSONDecodeError"]
                  /\ UNCHANGED <<call, loc>>
          ELSE /\ call' = [call EXCEPT ![t] = c]
               /\ IF Writes(c, d)
                     THEN /\ loc' = [loc EXCEPT ![t] = Changed(c, d)]
                          /\ pc' = [pc EXCEPT ![t] = "write"]
                          /\ res' = res
                     ELSE /\ loc' = [loc EXCEPT ![t] = d]
                          /\ pc' = [pc EXCEPT ![t] = "done"]
                          /\ res' = [res EXCEPT ![t] = "ok"]
    /\ UNCHANGED <<file, clock, outcome, tmp, lock, base, readerSaw, alive>>
    /\ UNCHANGED <<blockVars, appVars, pureVars>>

\* _write: open(tmp, "w") truncates the temp file, the other process's included
ProcOpenTmp(t, w) ==
    /\ alive /\ pc[t] = "write"
    /\ IF w THEN /\ tmp' = <<Truncated>>
                 /\ pc' = [pc EXCEPT ![t] = "dump"]
                 /\ res' = res
            ELSE /\ pc' = [pc EXCEPT ![t] = "done"]
                 /\ res' = [res EXCEPT ![t] = "OSError"]
                 /\ tmp' = tmp
    /\ UNCHANGED <<file, clock, outcome, lock, call, loc, base, readerSaw, alive>>
    /\ UNCHANGED <<blockVars, appVars, pureVars>>

\* _write: json.dump into the file the process opened, from its offset 0. Over text
\* the other process wrote there since, the result is this document (whole) or this
\* document followed by the rest of a longer one.
ProcDump(t, whole) ==
    /\ alive /\ pc[t] \in {"dump", "dump_real"}
    /\ LET cur == IF pc[t] = "dump" THEN tmp[1] ELSE file
           new == IF whole \/ cur = Truncated THEN Document(loc[t]) ELSE Truncated
       IN IF pc[t] = "dump"
             THEN tmp' = <<new>> /\ file' = file
          ELSE file' = new /\ tmp' = tmp
    /\ pc' = [pc EXCEPT ![t] = "replace"]
    /\ UNCHANGED <<clock, outcome, lock, call, loc, res, base, readerSaw, alive>>
    /\ UNCHANGED <<blockVars, appVars, pureVars>>

\* _write: os.replace(tmp, self.path); FileNotFoundError when the other process has
\* renamed the temp file away
ProcReplace(t) ==
    /\ alive /\ pc[t] = "replace"
    /\ IF tmp = <<>>
          THEN /\ pc' = [pc EXCEPT ![t] = "done"]
               /\ res' = [res EXCEPT ![t] = "FileNotFoundError"]
               /\ UNCHANGED <<file, tmp>>
       ELSE /\ file' = tmp[1]
            /\ tmp' = <<>>
            /\ pc' = [q \in Threads |-> IF q = t THEN "done"
                                        ELSE IF pc[q] = "dump" THEN "dump_real"
                                        ELSE pc[q]]
            /\ res' = [res EXCEPT ![t] = "ok"]
    /\ UNCHANGED <<clock, outcome, lock, call, loc, base, readerSaw, alive>>
    /\ UNCHANGED <<blockVars, appVars, pureVars>>

ProcsNext ==
    \/ \E t \in Threads, c \in ThreadCalls : Call(t, c)
    \/ \E t \in Threads : ProcRead(t)
    \/ \E t \in Threads, w \in BOOLEAN : ProcOpenTmp(t, w)
    \/ \E t \in Threads, whole \in BOOLEAN : ProcDump(t, whole)
    \/ \E t \in Threads : ProcReplace(t)
    \/ NextRound

\* ------------------------------------------------------------------ SpecBlock
\* ArpSpoofBlocker on the asyncio event loop. A coroutine runs without interruption up
\* to its next await that suspends; block() has none, unblock() has one (await
\* entry.task). A task that was cancelled ends at its own next step, not inside
\* task.cancel(). _send_packet runs in a worker thread (asyncio.to_thread), which
\* cancelling the task does not stop once it has begun.
Slots == 1..MaxTasks
BlockMacs == {"aa:01", "AA:01", "AA:02"}
\* ip as _apply passes it: device.get("ip") is None for a record without an ip
BlockIps == {None, "", "10.0.0.5", "10.0.0.6"}

\* logged: the send of the loop's current round raised, and _spoof_loop logged the error
FreeTask == [mac |-> "", ip |-> "", st |-> "free", cancel |-> FALSE, stop |-> FALSE,
             job |-> "none", logged |-> FALSE]
\* res: how the last call ended: "ok", "ValueError", or "active" for a block() that
\* returned at 'if mac in self._entries'
NoCmd == [pc |-> "idle", mac |-> "", task |-> 0, res |-> "ok"]

Keys(ents) == {ents[i].mac : i \in DOMAIN ents}
\* self._entries[mac]
EntryOf(ents, m) == ents[CHOOSE i \in DOMAIN ents : ents[i].mac = m]
\* self._entries.pop(mac)
Without(ents, m) == SelectSeq(ents, LAMBDA e : e.mac # m)
\* list(self._entries.keys())
KeyList(ents) == [i \in DOMAIN ents |-> ents[i].mac]

FreeSlots == {s \in Slots : tasks[s].st = "free"}
\* a task that has not terminated
Live(s) == tasks[s].st \in {"new", "sending", "waiting"}

\* a slot is reused once its task is done, nobody awaits it and its thread call is over
Release(t, awaited) ==
    IF t.st = "done" /\ ~awaited /\ t.job = "none" THEN FreeTask ELSE t
Awaited(s) == sdAwait = s \/ (cmd.pc = "await" /\ cmd.task = s)

\* block() with the membership test left out
block_always_spawns(ents, tsk, mac, ip, s) ==
    [entries |-> Append(Without(ents, upper(mac)), [mac |-> upper(mac), task |-> s]),
     tasks |-> [tsk EXCEPT ![s] = [mac |-> upper(mac), ip |-> ip, st |-> "new",
                                   cancel |-> FALSE, stop |-> FALSE, job |-> "none",
                                        logged |-> FALSE]],
     res |-> "ok", spawned |-> TRUE]

\* block() with the test of ip left out
block_skips_ip_test(ents, tsk, mac, ip, s) ==
    IF upper(mac) \in Keys(ents)
        THEN [entries |-> ents, tasks |-> tsk, res |-> "active", spawned |-> FALSE]
    ELSE [entries |-> Append(ents, [mac |-> upper(mac), task |-> s]),
          tasks |-> [tsk EXCEPT ![s] = [mac |-> upper(mac), ip |-> ip, st |-> "new",
                                        cancel |-> FALSE, stop |-> FALSE, job |-> "none",
                                        logged |-> FALSE]],
          res |-> "ok", spawned |-> TRUE]

\* ArpSpoofBlocker.block(mac, ip); s is the slot of the task it may create
block(ents, tsk, mac, ip, s) ==
    IF ~Truthy(ip)
        THEN [entries |-> ents, tasks |-> tsk, res |-> "ValueError", spawned |-> FALSE]
    ELSE IF upper(mac) \in Keys(ents)
        THEN [entries |-> ents, tasks |-> tsk, res |-> "active", spawned |-> FALSE]
    ELSE [entries |-> Append(ents, [mac |-> upper(mac), task |-> s]),
          tasks |-> [tsk EXCEPT ![s] = [mac |-> upper(mac), ip |-> ip, st |-> "new",
                                        cancel |-> FALSE, stop |-> FALSE, job |-> "none",
                                        logged |-> FALSE]],
          res |-> "ok", spawned |-> TRUE]

\* unblock() that pops the entry and awaits the task without stop_event.set() and
\* task.cancel()
unblock_without_cancel(ents, tsk, mac) ==
    IF upper(mac) \notin Keys(ents)
        THEN [entries |-> ents, tasks |-> tsk, task |-> 0]
    ELSE [entries |-> Without(ents, upper(mac)), tasks |-> tsk,
          task |-> EntryOf(ents, upper(mac)).task]

\* ArpSpoofBlocker.unblock(mac) up to its await: pop, stop_event.set(), task.cancel()
unblock_begin(ents, tsk, mac) ==
    IF upper(mac) \notin Keys(ents)
        THEN [entries |-> ents, tasks |-> tsk, task |-> 0]
    ELSE LET s == EntryOf(ents, upper(mac)).task IN
         [entries |-> Without(ents, upper(mac)),
          tasks |-> [tsk EXCEPT ![s].stop = TRUE, ![s].cancel = (tsk[s].st # "done")],
          task |-> s]

\* a command handler awaits blocker.block(mac, ip)
CmdBlock(mac, ip) ==
    /\ phase # "exited" /\ cmd.pc = "idle"
    /\ FreeSlots # {}
    /\ LET s == CHOOSE x \in FreeSlots : \A y \in FreeSlots : x <= y
           r == block(entries, tasks, mac, ip, s)
       IN /\ entries' = r.entries
          /\ tasks' = r.tasks
          /\ cmd' = [pc |-> "idle", mac |-> "", task |-> 0, res |-> r.res]
          /\ stopped' = IF r.spawned THEN stopped \ {upper(mac)} ELSE stopped
    /\ UNCHANGED <<phase, sdKeys, sdAwait>>
    /\ UNCHANGED <<storeVars, threadVars, appVars, pureVars>>

\* a command handler awaits blocker.unblock(mac): up to await entry.task
CmdUnblock(mac) ==
    /\ phase # "exited" /\ cmd.pc = "idle"
    /\ LET r == unblock_begin(entries, tasks, mac)
       IN /\ entries' = r.entries
          /\ tasks' = r.tasks
          /\ cmd' = IF r.task = 0 THEN NoCmd
                     ELSE [pc |-> "await", mac |-> upper(mac), task |-> r.task, res |-> "ok"]
    /\ UNCHANGED <<phase, sdKeys, sdAwait, stopped>>
    /\ UNCHANGED <<storeVars, threadVars, appVars, pureVars>>

\* the awaited task is done: unblock() returns to the command handler
CmdUnblockReturn ==
    /\ cmd.pc = "await"
    /\ tasks[cmd.task].st = "done"
    /\ cmd' = NoCmd
    /\ tasks' = [tasks EXCEPT ![cmd.task] = Release(@, FALSE)]
    /\ stopped' = stopped \cup {cmd.mac}
    /\ UNCHANGED <<entries, phase, sdKeys, sdAwait>>
    /\ UNCHANGED <<storeVars, threadVars, appVars, pureVars>>

\* shutdown() from the key keys[1] on: unblock(mac) of a MAC whose entry is gone
\* returns without suspending, so the loop runs on to the first unblock that awaits a
\* task (task # 0), or to its end (task = 0)
RECURSIVE shutdown_from(_, _, _)
shutdown_from(ents, tsk, keys) ==
    IF keys = <<>>
        THEN [entries |-> ents, tasks |-> tsk, keys |-> keys, task |-> 0]
    ELSE LET r == unblock_begin(ents, tsk, Head(keys)) IN
         IF r.task = 0
             THEN shutdown_from(r.entries, r.tasks, Tail(keys))
         ELSE [entries |-> r.entries, tasks |-> r.tasks, keys |-> keys, task |-> r.task]

\* main's finally: await blocker.shutdown(), which lists the keys and runs up to the
\* await of its first unblock; with nothing to await it returns and main goes on to
\* exit
ShutdownBegin ==
    /\ phase = "running"
    /\ LET r == shutdown_from(entries, tasks, KeyList(entries))
       IN /\ entries' = r.entries
          /\ tasks' = r.tasks
          /\ sdKeys' = r.keys
          /\ sdAwait' = r.task
          /\ phase' = IF r.task = 0 THEN "exited" ELSE "shutdown"
    /\ UNCHANGED <<cmd, stopped>>
    /\ UNCHANGED <<storeVars, threadVars, appVars, pureVars>>

\* shutdown: the awaited task is done, unblock() returns and the loop goes on with
\* the keys that are left
ShutdownResume ==
    /\ phase = "shutdown" /\ sdAwait # 0
    /\ tasks[sdAwait].st = "done"
    /\ LET r == shutdown_from(entries,
                              [tasks EXCEPT ![sdAwait] = Release(@, FALSE)],
                              Tail(sdKeys))
       IN /\ entries' = r.entries
          /\ tasks' = r.tasks
          /\ sdKeys' = r.keys
          /\ sdAwait' = r.task
          /\ phase' = IF r.task = 0 THEN "exited" ELSE "shutdown"
    /\ stopped' = stopped \cup {Head(sdKeys)}
    /\ UNCHANGED cmd
    /\ UNCHANGED <<storeVars, threadVars, appVars, pureVars>>

\* the first step of a _spoof_loop task: asyncio.to_thread(self._send_packet, ...)
TaskStart(s) ==
    /\ tasks[s].st = "new" /\ ~tasks[s].cancel
    /\ tasks' = [tasks EXCEPT ![s].st = "sending", ![s].job = "queued"]
    /\ UNCHANGED <<entries, cmd, phase, sdKeys, sdAwait, stopped>>
    /\ UNCHANGED <<storeVars, threadVars, appVars, pureVars>>

\* the step at which a cancelled task gets its CancelledError and ends; a thread call
\* that has not begun is cancelled with it
TaskCancelled(s) ==
    /\ Live(s) /\ tasks[s].cancel
    /\ tasks' = [tasks EXCEPT ![s] =
                    [@ EXCEPT !.st = "done", !.logged = FALSE,
                              !.job = IF @ = "queued" THEN "none" ELSE @]]
    /\ UNCHANGED <<entries, cmd, phase, sdKeys, sdAwait, stopped>>
    /\ UNCHANGED <<storeVars, threadVars, appVars, pureVars>>

\* a worker thread begins the call of _send_packet
JobStart(s) ==
    /\ tasks[s].job = "queued"
    /\ tasks' = [tasks EXCEPT ![s].job = "running"]
    /\ UNCHANGED <<entries, cmd, phase, sdKeys, sdAwait, stopped>>
    /\ UNCHANGED <<storeVars, threadVars, appVars, pureVars>>

\* a _spoof_loop whose try does not cover the send: the exception ends the task
send_failure_ends_task(s, sent) ==
    /\ tasks[s].job = "running"
    /\ LET awaiting == tasks[s].st = "sending" /\ ~tasks[s].cancel IN
       tasks' = [tasks EXCEPT ![s] =
                    Release([@ EXCEPT !.job = "none",
                                      !.st = IF awaiting
                                                THEN (IF sent THEN "waiting" ELSE "done")
                                                ELSE @,
                                      !.logged = IF awaiting THEN ~sent ELSE @],
                            Awaited(s))]
    /\ UNCHANGED <<entries, cmd, phase, sdKeys, sdAwait, stopped>>
    /\ UNCHANGED <<storeVars, threadVars, appVars, pureVars>>

\* sendp in the worker thread: the packet for tasks[s].mac goes out (sent), or sendp
\* raises, which _spoof_loop logs. A task still awaiting the call goes on to
\* wait_for(stop_event.wait(), timeout=self.interval).
JobSend(s, sent) ==
    /\ tasks[s].job = "running"
    /\ LET awaiting == tasks[s].st = "sending" /\ ~tasks[s].cancel IN
       tasks' = [tasks EXCEPT ![s] =
                    Release([@ EXCEPT !.job = "none",
                                      !.st = IF awaiting THEN "waiting" ELSE @,
                                      !.logged = IF awaiting THEN ~sent ELSE @],
                            Awaited(s))]
    /\ UNCHANGED <<entries, cmd, phase, sdKeys, sdAwait, stopped>>
    /\ UNCHANGED <<storeVars, threadVars, appVars, pureVars>>

\* wait_for times out: the loop sends again
WaitTimeout(s) ==
    /\ tasks[s].st = "waiting" /\ ~tasks[s].cancel
    /\ tasks' = [tasks EXCEPT ![s].st = "sending", ![s].job = "queued", ![s].logged = FALSE]
    /\ UNCHANGED <<entries, cmd, phase, sdKeys, sdAwait, stopped>>
    /\ UNCHANGED <<storeVars, threadVars, appVars, pureVars>>

BlockIdle ==
    /\ entries = <<>>
    /\ tasks = [s \in Slots |-> FreeTask]
    /\ cmd = NoCmd
    /\ phase = "running"
    /\ sdKeys = <<>>
    /\ sdAwait = 0
    /\ stopped = {}

BlockNext ==
    \/ \E m \in BlockMacs, ip \in BlockIps : CmdBlock(m, ip)
    \/ \E m \in BlockMacs : CmdUnblock(m)
    \/ CmdUnblockReturn
    \/ ShutdownBegin
    \/ ShutdownResume
    \/ \E s \in Slots : TaskStart(s)
    \/ \E s \in Slots : TaskCancelled(s)
    \/ \E s \in Slots : JobStart(s)
    \/ \E s \in Slots, sent \in BOOLEAN : JobSend(s, sent)
    \/ \E s \in Slots : WaitTimeout(s)

\* ------------------------------------------------------------------ SpecApp
\* main.py: scan_loop and the bot's command handlers on one event loop, with the
\* Store and the ArpSpoofBlocker above. A coroutine runs to its next suspending await:
\* scan_loop suspends in bot.notify_new and in asyncio.sleep (scanner.scan and the
\* Store calls are synchronous), _add_block suspends in reply_text.
AppMacs == {"aa:01", "AA:02"}
\* entries of a scan result; the scanner upper-cases the MAC (scanner.py:31, 44)
ScanDevices ==
    {[mac |-> "AA:01", ip |-> "10.0.0.5", vendor |-> None],
     [mac |-> "AA:01", ip |-> "10.0.0.6", vendor |-> None],
     [mac |-> "AA:02", ip |-> "10.0.0.7", vendor |-> None]}
Snapshots == UNION {[1..n -> ScanDevices] : n \in 0..MaxSeen}
\* how scanner.scan() fails: utils.run raises ShellError on a non-zero exit, and
\* subprocess raises FileNotFoundError (no such command) or TimeoutExpired
ScanFailures == {"ShellError", "FileNotFoundError", "TimeoutExpired"}

\* an except clause that names ShellError only
catches_shell_error_only(exc) == exc = "ShellError"

\* 'except Exception' catches exc
IsException(exc) ==
    exc \in {"ShellError", "FileNotFoundError", "TimeoutExpired", "OSError",
             "ValueError", "TelegramError"}

\* exc: the exception the except clause of the cycle caught, "none" for none; seen:
\* the MACs of the scan result of the cycle
NoScan == [pc |-> "scan", queue |-> <<>>, known_allow |-> {}, known_block |-> {},
           exc |-> "none", seen |-> {}]
NoOp == [pc |-> "idle", mac |-> "", reply |-> "none", apply |-> "none"]

\* the end of a cycle: await asyncio.sleep(scan_interval), the locals are dead
\* how: "ok", or the exception that ended the for loop; one that 'except Exception'
\* does not catch ends scan_loop
Sleeping(how) ==
    IF how = "ok" THEN [NoScan EXCEPT !.pc = "sleep"]
    ELSE IF IsException(how) THEN [NoScan EXCEPT !.pc = "sleep", !.exc = how]
    ELSE [NoScan EXCEPT !.pc = "dead"]

\* the for loop of scan_loop over the entries q still to do, up to its next suspending
\* await: the upsert of each entry, and notify_new (pc "notify", for mac) when the MAC
\* was neither allowed nor blocked when the cycle began. w: whether the data directory
\* can be written; a failed write raises OSError, which ends the cycle.
RECURSIVE scan_from(_, _, _, _, _, _)
scan_from(devs, q, ka, kb, t, w) ==
    IF q = <<>>
        THEN [devices |-> devs, scan |-> Sleeping("ok"), mac |-> ""]
    ELSE IF ~w
        THEN [devices |-> devs, scan |-> Sleeping("OSError"), mac |-> ""]
    ELSE LET mac == upper(Head(q).mac)
             d2 == upsert_device(devs, mac, Head(q).ip, Head(q).vendor, t, t)
         IN IF mac \notin ka /\ mac \notin kb
                THEN [devices |-> d2,
                      scan |-> [pc |-> "notify", queue |-> Tail(q),
                                known_allow |-> ka, known_block |-> kb, exc |-> "none",
                                seen |-> {}],
                      mac |-> mac]
            ELSE scan_from(d2, Tail(q), ka, kb, t, w)

Count(n, mac) == [n EXCEPT ![mac] = IF @ < 2 THEN @ + 1 ELSE @]
NoneNotified == [m \in {upper(x) : x \in AppMacs} |-> 0]

\* seen, known_allow and known_block of the cycle, which sc is in or has ended
OfCycle(sc, seen, ka, kb) ==
    [sc EXCEPT !.seen = seen, !.known_allow = ka, !.known_block = kb]

\* the event loop's thread is not inside a synchronous call: coroutines can be resumed
LoopFree == scan.pc # "scanning"

\* a cycle begins: scanner.scan() is called in the coroutine, and the thread of the
\* event loop is in subprocess.check_output until the scan command ends or times out
ScanBegin ==
    /\ scan.pc = "scan"
    /\ scan' = [scan EXCEPT !.pc = "scanning"]
    /\ UNCHANGED <<notified, block_enable, op, deferred>>
    /\ UNCHANGED <<storeVars, threadVars, blockVars, pureVars>>

\* a cycle whose scanner.scan() returns seen: known_allow and known_block are taken
\* from list_devices(), then the for loop runs
ScanOk(seen, w) ==
    /\ scan.pc = "scanning"
    /\ LET devs == file.devices
           ka == {m \in DOMAIN devs : devs[m].allow = TRUE}
           kb == {m \in DOMAIN devs : devs[m].block = TRUE}
           r == scan_from(devs, seen, ka, kb, clock, w)
       IN /\ file' = [file EXCEPT !.devices = r.devices]
          /\ scan' = OfCycle(r.scan, {upper(seen[i].mac) : i \in DOMAIN seen}, ka, kb)
          /\ notified' = IF r.mac = "" THEN NoneNotified ELSE Count(NoneNotified, r.mac)
    /\ UNCHANGED <<clock, outcome, block_enable, op, deferred>>
    /\ UNCHANGED <<threadVars, blockVars, pureVars>>

\* scan_loop with an except clause that upserts a stale entry before it sleeps
ScanFailUpserts(exc) ==
    /\ scan.pc = "scanning"
    /\ scan' = Sleeping(exc)
    /\ notified' = NoneNotified
    /\ file' = [file EXCEPT !.devices =
                   upsert_device(file.devices, "AA:01", "10.0.0.5", None, clock, clock)]
    /\ UNCHANGED <<clock, outcome, block_enable, op, deferred>>
    /\ UNCHANGED <<threadVars, blockVars, pureVars>>

\* a cycle whose scanner.scan() raises exc: the except clause logs it
ScanFail(exc) ==
    /\ scan.pc = "scanning"
    /\ scan' = Sleeping(exc)
    /\ notified' = NoneNotified
    /\ UNCHANGED <<file, clock, outcome, block_enable, op, deferred>>
    /\ UNCHANGED <<threadVars, blockVars, pureVars>>

\* bot.notify_new returns (sent) or raises from send_message; the loop goes on with
\* the entries that are left, or the except clause ends the cycle
NotifyDone(sent, w) ==
    /\ scan.pc = "notify"
    /\ LET r == scan_from(file.devices, scan.queue, scan.known_allow,
                          scan.known_block, clock, w)
       IN IF sent
              THEN /\ file' = [file EXCEPT !.devices = r.devices]
                   /\ scan' = OfCycle(r.scan, scan.seen, scan.known_allow,
                                      scan.known_block)
                   /\ notified' = IF r.mac = "" THEN notified ELSE Count(notified, r.mac)
          ELSE /\ scan' = OfCycle(Sleeping("TelegramError"), scan.seen,
                                  scan.known_allow, scan.known_block)
               /\ UNCHANGED <<file, notified>>
    /\ UNCHANGED <<clock, outcome, block_enable, op, deferred>>
    /\ UNCHANGED <<threadVars, blockVars, pureVars>>

\* asyncio.sleep(scan_interval) is over: the next cycle
Wake ==
    /\ scan.pc = "sleep"
    /\ scan' = NoScan
    /\ notified' = NoneNotified
    /\ UNCHANGED <<block_enable, op, deferred>>
    /\ UNCHANGED <<storeVars, threadVars, blockVars, pureVars>>

\* The commands are those of the configured chat and carry a MAC: a handler answers
\* any other update ("No autorizado.", "Uso: ...") and returns.
\* /add_allow <mac>: mark_allow, then the reply
AddAllow(mac, w) ==
    /\ LoopFree /\ op.pc = "idle"
    /\ file' = Store_write(file, mark_allow(file.devices, mac, None), w)
    /\ op' = [NoOp EXCEPT !.reply = IF w THEN "Permitido" ELSE "none"]
    /\ UNCHANGED <<clock, outcome, block_enable, scan, notified, deferred>>
    /\ UNCHANGED <<threadVars, blockVars, pureVars>>

\* /add_block <mac> <reason> up to its reply_text: mark_block, which may raise OSError
AddBlock(mac, reason, w) ==
    /\ LoopFree /\ op.pc = "idle"
    /\ file' = Store_write(file, mark_block(file.devices, mac, reason), w)
    /\ op' = IF w THEN [NoOp EXCEPT !.pc = "reply", !.mac = mac] ELSE NoOp
    /\ UNCHANGED <<clock, outcome, block_enable, scan, notified, deferred>>
    /\ UNCHANGED <<threadVars, blockVars, pureVars>>

\* _apply that blocks an address of its own when none is on file
apply_ip_default(devs, mac) ==
    IF Truthy(Get(devs[upper(mac)].ip)) THEN Get(devs[upper(mac)].ip) ELSE "10.0.0.5"

\* _apply: the ip it hands to blocker.block, device.get("ip")
apply_ip(devs, mac) == Get(devs[upper(mac)].ip)

\* /add_block from its reply_text on: the reply is sent (or send raises and the
\* handler ends), then _apply: nothing when blocking is disabled or the MAC has no
\* record, else blocker.block(mac, ip), whose error it logs
AddBlockApply(sent) ==
    /\ LoopFree /\ op.pc = "reply"
    /\ IF ~sent
          THEN op' = NoOp /\ UNCHANGED <<entries, tasks, deferred>>
       ELSE IF ~block_enable
          THEN /\ op' = [NoOp EXCEPT !.reply = "Bloqueado", !.apply = "disabled"]
               /\ UNCHANGED <<entries, tasks, deferred>>
       ELSE IF upper(op.mac) \notin DOMAIN file.devices
          THEN /\ op' = [NoOp EXCEPT !.reply = "Bloqueado", !.apply = "no data"]
               /\ UNCHANGED <<entries, tasks, deferred>>
       ELSE /\ FreeSlots # {} \/ upper(op.mac) \in Keys(entries)
            /\ LET s == CHOOSE x \in FreeSlots : \A y \in FreeSlots : x <= y
                   r == block(entries, tasks, op.mac, apply_ip(file.devices, op.mac), s)
               IN /\ entries' = r.entries
                  /\ tasks' = r.tasks
                  /\ op' = [NoOp EXCEPT !.reply = "Bloqueado", !.apply = r.res]
                  /\ deferred' = IF r.res = "ValueError"
                                    THEN deferred \cup {upper(op.mac)} ELSE deferred
    /\ UNCHANGED <<block_enable, scan, notified>>
    /\ UNCHANGED <<cmd, phase, sdKeys, sdAwait, stopped>>
    /\ UNCHANGED <<storeVars, threadVars, pureVars>>

AppIdle ==
    /\ scan = NoScan
    /\ notified = NoneNotified
    /\ op = NoOp
    /\ deferred = {}

AppNext ==
    \/ ScanBegin
    \/ \E seen \in Snapshots, w \in BOOLEAN : ScanOk(seen, w)
    \/ \E exc \in ScanFailures : ScanFail(exc)
    \/ \E sent \in BOOLEAN, w \in BOOLEAN : NotifyDone(sent, w)
    \/ Wake
    \/ \E m \in AppMacs, w \in BOOLEAN : AddAllow(m, w)
    \/ \E m \in AppMacs, w \in BOOLEAN : AddBlock(m, "x", w)
    \/ \E sent \in BOOLEAN : AddBlockApply(sent)

\* ------------------------------------------------------------------ SpecPure
\* Scanner._normalize_vendor and the two status functions, each applied to arguments
\* drawn at Init.  A text is the sequence of its characters; Python's None among
\* texts is NoneText.

NoneText == <<"None">>

Whitespace == {" ", "\t"}

T_unknown == <<"u", "n", "k", "n", "o", "w", "n">>
T_Unknown == <<"U", "n", "k", "n", "o", "w", "n">>
T_p_unknown == <<"(", "u", "n", "k", "n", "o", "w", "n", ")">>
T_p_UNKNOWN == <<"(", "U", "N", "K", "N", "O", "W", "N", ")">>
T_unknown_x == <<"u", "n", "k", "n", "o", "w", "n", " ", "x">>
T_Acme == <<"A", "c", "m", "e">>
T_AcmeCorp == <<"A", "c", "m", "e", " ", "C", "o", "r", "p">>

\* what arp-scan may print in its vendor column, before any padding
VendorCores == {<<>>, T_unknown, T_Unknown, T_p_unknown, T_p_UNKNOWN, T_unknown_x, T_Acme}

RECURSIVE Pad(_, _, _)
Pad(text, l, r) ==
    IF l > 0 THEN Pad(<<" ">> \o text, l - 1, r)
    ELSE IF r > 0 THEN Pad(text \o <<"\t">>, l, r - 1)
    ELSE text

VendorTexts ==
    {NoneText} \cup {Pad(c, l, r) : c \in VendorCores, l \in 0..MaxPad, r \in 0..MaxPad}

\* str.lower() of one character, for the letters of the texts above
LowerChar(c) ==
    CASE c = "U" -> "u" [] c = "N" -> "n" [] c = "K" -> "k" [] c = "O" -> "o"
      [] c = "W" -> "w" [] c = "A" -> "a" [] c = "C" -> "c" [] OTHER -> c

\* a sentinel test that is case-sensitive
lower_keeps_case(text) == text

\* str.lower()
lower(text) == [i \in DOMAIN text |-> LowerChar(text[i])]

\* str.strip(): leading and trailing whitespace removed
RECURSIVE strip(_)
strip(text) ==
    IF text = <<>> THEN text
    ELSE IF Head(text) \in Whitespace THEN strip(Tail(text))
    ELSE IF text[Len(text)] \in Whitespace THEN strip(SubSeq(text, 1, Len(text) - 1))
    ELSE text

\* the vendor tables VENDOR_LOOKUP has loaded: none, or one that knows AA:01's prefix
VendorTables ==
    {[m \in {"AA:01", "AA:02"} |-> NoneText],
     [m \in {"AA:01", "AA:02"} |-> IF m = "AA:01" THEN T_AcmeCorp ELSE NoneText]}

\* VendorLookup.lookup
lookup(table, mac) == table[mac]

\* Scanner._normalize_vendor
normalize_vendor(table, mac, vendor) ==
    IF vendor # NoneText /\ vendor # <<>>
    THEN LET text == strip(vendor)
         IN  IF text # <<>> /\ lower(text) \notin {T_unknown, T_p_unknown}
             THEN text
             ELSE lookup(table, mac)
    ELSE lookup(table, mac)

\* what the vendor group of a line that ARP_RE matched can be: the line was stripped,
\* \s+ took all the whitespace before the group and .+ needs one character
ArpGroup(text) ==
    /\ text \notin {NoneText, <<>>}
    /\ Head(text) \notin Whitespace
    /\ text[Len(text)] \notin Whitespace

\* the truth value Python's `if` gives a flag read with dict.get
FlagInputs == {"True", "False", None, Missing}
truth(v) == v = "True"

\* a status function that tests allow first
status_allow_first(data) ==
    IF truth(Get(data.allow)) THEN "ALLOW"
    ELSE IF truth(Get(data.block)) THEN "BLOCK"
    ELSE "NEW"

\* cli._device_status
device_status(data) ==
    IF truth(Get(data.block)) THEN "BLOCK"
    ELSE IF truth(Get(data.allow)) THEN "ALLOW"
    ELSE "NEW"

\* TelegramBot._status_for_device
status_for_device(data) ==
    IF truth(Get(data.block)) THEN "BLOCK"
    ELSE IF truth(Get(data.allow)) THEN "ALLOW"
    ELSE "NEW"

\* no call made yet
NoPure ==
    [fn |-> "none", table |-> [m \in {"AA:01", "AA:02"} |-> NoneText], mac |-> "AA:01",
     vendor |-> NoneText, out |-> NoneText,
     data |-> [allow |-> Missing, block |-> Missing], cli |-> "", bot |-> ""]

PureIdle == pure = NoPure

PureInputs ==
    {[NoPure EXCEPT !.table = t, !.mac = m, !.vendor = v, !.data = [allow |-> a, block |-> b]] :
        t \in VendorTables, m \in {"AA:01", "AA:02"}, v \in VendorTexts,
        a \in FlagInputs, b \in FlagInputs}

\* _normalize_vendor called on its own
NormalizeVendor ==
    /\ pure.fn = "none"
    /\ pure' = [pure EXCEPT !.fn = "_normalize_vendor",
                            !.out = normalize_vendor(pure.table, pure.mac, pure.vendor)]
    /\ UNCHANGED <<storeVars, threadVars, blockVars, appVars>>

\* _scan_arp_scan, one matched line: the group is stripped, then normalized
ScanArpScan ==
    /\ pure.fn = "none"
    /\ ArpGroup(pure.vendor)
    /\ pure' = [pure EXCEPT !.fn = "_scan_arp_scan",
                            !.out = normalize_vendor(pure.table, pure.mac, strip(pure.vendor))]
    /\ UNCHANGED <<storeVars, threadVars, blockVars, appVars>>

\* _scan_ip_neigh, one matched line: no vendor is read from the line
ScanIpNeigh ==
    /\ pure.fn = "none"
    /\ pure' = [pure EXCEPT !.fn = "_scan_ip_neigh",
                            !.out = normalize_vendor(pure.table, pure.mac, NoneText)]
    /\ UNCHANGED <<storeVars, threadVars, blockVars, appVars>>

\* the CLI renders the record
DeviceStatus ==
    /\ pure.cli = ""
    /\ pure' = [pure EXCEPT !.cli = device_status(pure.data)]
    /\ UNCHANGED <<storeVars, threadVars, blockVars, appVars>>

\* the bot renders the record
StatusForDevice ==
    /\ pure.bot = ""
    /\ pure' = [pure EXCEPT !.bot = status_for_device(pure.data)]
    /\ UNCHANGED <<storeVars, threadVars, blockVars, appVars>>

PureNext ==
    \/ NormalizeVendor
    \/ ScanArpScan
    \/ ScanIpNeigh
    \/ DeviceStatus
    \/ StatusForDevice

StoreInit ==
    /\ file = EmptyDoc
    /\ clock = 0
    /\ outcome = "ok"

ThreadsIdle ==
    /\ tmp = <<>>
    /\ lock = 0
    /\ alive = TRUE
    /\ pc = [t \in Threads |-> "idle"]
    /\ call = [t \in Threads |-> NoCall]
    /\ loc = [t \in Threads |-> <<>>]
    /\ res = [t \in Threads |-> "ok"]
    /\ base = <<>>
    /\ readerSaw = "nothing"

Init == StoreInit /\ ThreadsIdle /\ BlockIdle /\ AppIdle /\ PureIdle /\ block_enable = TRUE

\* block.enable of the configuration read either way; it is False as well when the
\* ArpSpoofBlocker could not be constructed
InitApp ==
    StoreInit /\ ThreadsIdle /\ BlockIdle /\ AppIdle /\ PureIdle /\ block_enable \in BOOLEAN

Next ==
    \/ \E m \in MacInputs, ip \in IpInputs, v \in VendorInputs, w \in BOOLEAN :
           UpsertDevice(m, ip, v, w)
    \/ \E m \in MacInputs, n \in NameInputs, w \in BOOLEAN : MarkAllow(m, n, w)
    \/ \E m \in MacInputs, r \in ReasonInputs, w \in BOOLEAN : MarkBlock(m, r, w)
    \/ \E m \in MacInputs, w \in BOOLEAN : Unallow(m, w)
    \/ \E m \in MacInputs, w \in BOOLEAN : Unblock(m, w)
    \/ \E m \in MacInputs, w \in BOOLEAN : SetName(m, "tv", w)
    \/ Tick

vars == <<storeVars, threadVars, blockVars, appVars, pureVars>>

Spec == Init /\ [][Next]_vars

\* a registry file left by an earlier run: a device that was seen and then blocked
SeedDoc ==
    [EmptyDoc EXCEPT !.devices =
        mark_block(upsert_device(<<>>, "aa:02", "10.0.0.7", "Acme", 0, 0), "aa:02", "x")]

\* the Store opened on an empty data directory, or on one that holds SeedDoc
InitSeeded ==
    /\ file \in {EmptyDoc, SeedDoc}
    /\ clock = 0
    /\ outcome = "ok"
    /\ ThreadsIdle /\ BlockIdle /\ AppIdle /\ PureIdle /\ block_enable = TRUE

SpecSeeded == InitSeeded /\ [][Next]_vars

\* the registry addressed by spellings of one MAC: the scanner reports it with colons
\* (ARP_RE, IPN_RE), the CLI and the bot pass on what the user typed
KeyInputs == {"aa:01", "AA:01", "aa-01"}

KeysNext ==
    \/ \E m \in {"aa:01", "AA:01"}, w \in BOOLEAN : UpsertDevice(m, "10.0.0.5", None, w)
    \/ \E m \in KeyInputs, w \in BOOLEAN : MarkAllow(m, None, w)
    \/ \E m \in KeyInputs, w \in BOOLEAN : MarkBlock(m, "x", w)
    \/ \E m \in KeyInputs, w \in BOOLEAN : Unallow(m, w)
    \/ \E m \in KeyInputs, w \in BOOLEAN : Unblock(m, w)
    \/ \E m \in KeyInputs, w \in BOOLEAN : SetName(m, "tv", w)

SpecKeys == Init /\ [][KeysNext]_vars

SpecThreads == Init /\ [][ThreadsNext]_vars

SpecProcs == Init /\ [][ProcsNext]_vars

SpecBlock == Init /\ [][BlockNext]_vars

\* sessions started with an address and stopped, by commands and by shutdown
StopMacs == {"aa:01", "AA:02"}

StopNext ==
    \/ \E m \in StopMacs : CmdBlock(m, "10.0.0.5")
    \/ \E m \in StopMacs : CmdUnblock(m)
    \/ CmdUnblockReturn
    \/ ShutdownBegin
    \/ ShutdownResume
    \/ \E s \in Slots : TaskStart(s)
    \/ \E s \in Slots : TaskCancelled(s)
    \/ \E s \in Slots : JobStart(s)
    \/ \E s \in Slots, sent \in BOOLEAN : JobSend(s, sent)
    \/ \E s \in Slots : WaitTimeout(s)

\* the event loop resumes a task that was cancelled and a coroutine whose awaited task
\* is done
SpecBlockLive ==
    /\ Init /\ [][StopNext]_vars
    /\ \A s \in Slots : WF_vars(TaskCancelled(s))
    /\ WF_vars(CmdUnblockReturn)
    /\ WF_vars(ShutdownResume)

SpecApp == InitApp /\ [][AppNext]_vars

\* the event loop runs a timer that is due: asyncio.sleep returns
SpecAppLive == SpecApp /\ WF_vars(Wake)

\* the event loop resumes scan_loop whenever it can go on: the scan command ends or
\* times out, send_message returns or raises, the sleep timer is due. No command is
\* ever bound to arrive.
SpecAppFair ==
    /\ SpecApp
    /\ WF_vars(ScanBegin)
    /\ WF_vars((\E seen \in Snapshots, w \in BOOLEAN : ScanOk(seen, w))
                  \/ (\E exc \in ScanFailures : ScanFail(exc)))
    /\ WF_vars(\E sent \in BOOLEAN, w \in BOOLEAN : NotifyDone(sent, w))
    /\ WF_vars(Wake)

\* the functions applied to every input
InitPure ==
    StoreInit /\ ThreadsIdle /\ BlockIdle /\ AppIdle /\ block_enable = TRUE /\ pure \in PureInputs

SpecPure == InitPure /\ [][PureNext]_vars

\* ------------------------------------------------------------------ registry claims
Rec(m) == file.devices[m]
Present(m) == m \in DOMAIN file.devices

\* C4: no record is allowed and blocked at once, and right after a successful
\* markAllowed(mac) or markBlocked(mac) exactly one of the two flags of that record
\* is true.
C4_AllowBlockExclusive ==
    /\ [](\A k \in DOMAIN file.devices : ~(Rec(k).allow /\ Rec(k).block))
    /\ [][\A m \in MacInputs :
            /\ (\E n \in NameInputs : MarkAllow(m, n, TRUE))
                   => (Rec(upper(m)).allow /\ ~Rec(upper(m)).block)'
            /\ (\E r \in ReasonInputs : MarkBlock(m, r, TRUE))
                   => (Rec(upper(m)).block /\ ~Rec(upper(m)).allow)']_vars

\* a record that was blocked with a reason and allowed afterwards
C4_Witness ==
    \E k \in DOMAIN file.devices : Rec(k).allow /\ ~Rec(k).block /\ Rec(k).notes = "x"

\* an upsert of the record of key k, written successfully
UpsertOf(k) ==
    \E m \in MacInputs, ip \in IpInputs, v \in VendorInputs :
        upper(m) = k /\ UpsertDevice(m, ip, v, TRUE)

\* C5: the upsert that creates a record sets firstSeen to its timestamp, no later
\* call changes a firstSeen that is set, and lastSeen is the timestamp of the most
\* recent upsert of that MAC (every upsert sets it, no other call changes it).
C5_FirstSeenOnceLastSeenLatest ==
    [][\A k \in Macs :
          /\ (UpsertOf(k) /\ ~Present(k)) => Rec(k)'.first_seen = clock
          /\ (Present(k) /\ Rec(k).first_seen # NoTime)
                 => Rec(k)'.first_seen = Rec(k).first_seen
          /\ UpsertOf(k) => Rec(k)'.last_seen = clock'
          /\ (Present(k) /\ ~UpsertOf(k)) => Rec(k)'.last_seen = Rec(k).last_seen]_vars

\* a record sighted again after the clock moved on
C5_Witness ==
    \E k \in DOMAIN file.devices :
        Rec(k).first_seen # NoTime /\ Rec(k).first_seen < Rec(k).last_seen

\* C6: every record that has a lastSeen has a firstSeen, and firstSeen <= lastSeen.
C6_FirstSeenBeforeLastSeen ==
    \A k \in DOMAIN file.devices :
        Rec(k).last_seen # NoTime
            => (Rec(k).first_seen # NoTime /\ Rec(k).first_seen <= Rec(k).last_seen)

\* a Store call made while the data directory cannot be written
UnwritableCall ==
    \/ \E m \in MacInputs, ip \in IpInputs, v \in VendorInputs : UpsertDevice(m, ip, v, FALSE)
    \/ \E m \in MacInputs, n \in NameInputs : MarkAllow(m, n, FALSE)
    \/ \E m \in MacInputs, r \in ReasonInputs : MarkBlock(m, r, FALSE)
    \/ \E m \in MacInputs : Unallow(m, FALSE) \/ Unblock(m, FALSE) \/ SetName(m, "tv", FALSE)

\* the same, for the calls that reach self._write
UnwritableWrite ==
    \/ \E m \in MacInputs, ip \in IpInputs, v \in VendorInputs : UpsertDevice(m, ip, v, FALSE)
    \/ \E m \in MacInputs, n \in NameInputs : MarkAllow(m, n, FALSE)
    \/ \E m \in MacInputs, r \in ReasonInputs : MarkBlock(m, r, FALSE)
    \/ \E m \in MacInputs :
          Present(upper(m)) /\ (Unallow(m, FALSE) \/ Unblock(m, FALSE) \/ SetName(m, "tv", FALSE))

\* C9 as stated: every mutating call made while the location is unwritable fails with
\* an error and leaves the document as it was.
C9_UnwritableAlwaysFails ==
    [][UnwritableCall => (outcome' = "OSError" /\ file' = file)]_vars

\* C9 as amended: a call made while the location is unwritable leaves the document as
\* it was; it fails with the error when it reaches its write, and unallow, unblock
\* and setName of a MAC with no record return normally.
C9_UnwritableLeavesDocument ==
    [][/\ UnwritableCall => file' = file
       /\ UnwritableWrite => outcome' = "OSError"
       /\ (UnwritableCall /\ ~UnwritableWrite) => outcome' = "ok"]_vars

\* a failed call on a registry that holds records
C9_Witness == outcome = "OSError" /\ DOMAIN file.devices # {}

\* C10: a successful markBlocked(mac, "x") leaves the record blocked, not allowed,
\* with notes "x" in what listAll returns; a successful unblock(mac) of a record
\* clears blocked and leaves its notes as they were.
C10_BlockUnblockRoundTrip ==
    [][\A m \in MacInputs :
          /\ MarkBlock(m, "x", TRUE)
                 => /\ upper(m) \in DOMAIN list_devices'
                    /\ list_devices'[upper(m)].block
                    /\ ~list_devices'[upper(m)].allow
                    /\ list_devices'[upper(m)].notes = "x"
          /\ (Present(upper(m)) /\ Unblock(m, TRUE))
                 => /\ upper(m) \in DOMAIN list_devices'
                    /\ ~list_devices'[upper(m)].block
                    /\ list_devices'[upper(m)].notes = Rec(upper(m)).notes]_vars

\* a record blocked with the reason "x" and unblocked again
C10_Witness ==
    \E k \in DOMAIN file.devices : ~Rec(k).block /\ ~Rec(k).allow /\ Rec(k).notes = "x"

\* ------------------------------------------------------------------ concurrent callers
\* C1: when two threads have each run one mutating method to its end, the document
\* is what running the two methods one after the other, in one of the two orders,
\* gives from the document they started from (no update is lost).
C1_NoLostUpdate ==
    (alive /\ \A t \in Threads : pc[t] = "done" /\ res[t] = "ok")
        => file.devices \in { Apply(call[2], Apply(call[1], base)),
                              Apply(call[1], Apply(call[2], base)) }

\* C8: the real path always holds a complete document, also after the process was
\* killed at any step of a write, a reader never gets anything else, and the only
\* change the real path ever sees is from its document to the complete document a
\* write was given.
C8_AtomicReplace ==
    /\ [](file.parses /\ readerSaw # "garbage")
    /\ [][file' # file
            => \E t \in Threads : lock = t /\ pc[t] = "replace" /\ file' = Document(loc[t])]_vars

\* the process was killed between opening the temp file and the end of the dump,
\* and a reader read the real path after that
C8_Witness ==
    /\ ~alive
    /\ tmp = <<Truncated>>
    /\ \E t \in Threads : pc[t] = "dump" /\ loc[t] # file.devices
    /\ readerSaw = "document"

\* ------------------------------------------------------------------ block sessions
\* C2: at every instant at most one block-session task that has not terminated
\* exists for any MAC.
C2_OneLiveTaskPerMac ==
    \A m \in {upper(x) : x \in BlockMacs} :
        Cardinality({s \in Slots : Live(s) /\ tasks[s].mac = m}) <= 1

\* C3: block(mac, ip) called while mac has a session spawns no task and leaves the
\* session map and every task (its state, stop signal and target IP) as they were,
\* whatever ip is.
C3_StartOnActiveIsNoOp ==
    [][\A m \in BlockMacs :
          upper(m) \in Keys(entries)
              => \A ip \in BlockIps : CmdBlock(m, ip) => UNCHANGED <<entries, tasks>>]_vars

\* a block() call has just returned at the membership test, and the session it found
\* is still there with its task running
C3_Witness ==
    /\ cmd.res = "active"
    /\ \E i \in DOMAIN entries : tasks[entries[i].task].st \in {"sending", "waiting"}

\* C7: once an awaited unblock(mac) has returned, no packet for that MAC is sent
\* until a later block(mac, ...) starts a session.
C7_NoSendAfterStop ==
    [][\A s \in Slots : JobSend(s, TRUE) => tasks[s].mac \notin stopped]_vars

\* C11: block(mac, ip) with an empty or missing ip fails with an error (ValueError, the
\* code's configuration error) and changes nothing: no entry is added, no task is
\* created, and the entries and tasks that exist are untouched.
C11_EmptyIpFails ==
    [][\A m \in BlockMacs, ip \in BlockIps :
          (~Truthy(ip) /\ CmdBlock(m, ip))
              => cmd'.res = "ValueError" /\ UNCHANGED <<entries, tasks>>]_vars

\* an empty-ip block() has failed while a session of a running task exists
C11_Witness ==
    /\ cmd.res = "ValueError"
    /\ \E i \in DOMAIN entries : tasks[entries[i].task].st \in {"sending", "waiting"}

\* what unblock(m) does up to its await
StopEffect(m) ==
    IF upper(m) \notin Keys(entries)
        THEN cmd' = NoCmd /\ UNCHANGED <<entries, tasks>>
    ELSE LET s == EntryOf(entries, upper(m)).task IN
         /\ Keys(entries') = Keys(entries) \ {upper(m)}
         /\ \A k \in Keys(entries') : EntryOf(entries', k) = EntryOf(entries, k)
         /\ tasks'[s].stop /\ tasks'[s].cancel
         /\ \A x \in Slots \ {s} : tasks'[x] = tasks[x]
         /\ cmd'.pc = "await" /\ cmd'.task = s

\* C12: unblock(mac) of a MAC without an entry returns at once and changes nothing; of
\* a MAC with an entry it removes that entry, sets the stop event and cancels the task,
\* leaving every other entry and task as it was, and it returns to the command
\* handler only when the task is done, the MAC still without an entry and no entry
\* changed by the return.
C12_StopContract ==
    [][/\ \A m \in BlockMacs : CmdUnblock(m) => StopEffect(m)
       /\ CmdUnblockReturn
             => /\ ~Live(cmd.task)
                /\ cmd.mac \notin Keys(entries')
                /\ entries' = entries
                /\ \A x \in Slots \ {cmd.task} : tasks'[x] = tasks[x]]_vars

\* a command handler's unblock of an active MAC has returned while another MAC keeps
\* its session
C12_Witness ==
    /\ phase = "running" /\ cmd = NoCmd
    /\ stopped # {}
    /\ \E i \in DOMAIN entries : entries[i].mac \notin stopped /\ Live(entries[i].task)

\* C13: when shutdown() has gone through its list and main goes on to exit, no MAC has
\* an entry and every _spoof_loop task has terminated or is cancelled and about to,
\* block commands handled during the shutdown included.
C13_NothingLeftAtExit ==
    phase = "exited" => entries = <<>> /\ \A s \in Slots : Live(s) => tasks[s].cancel

\* ------------------------------------------------------------------ scan loop claims
\* C14: a cycle whose scanner.scan() raises changes nothing in the registry document
\* and calls notify_new for no MAC.
C14_FailedScanChangesNothing ==
    [][\A exc \in ScanFailures :
          ScanFail(exc) => file' = file /\ \A m \in DOMAIN notified' : notified'[m] = 0]_vars

\* a scan has failed on a registry that holds a record
C14_Witness ==
    /\ scan.pc = "sleep" /\ scan.exc \in ScanFailures
    /\ file.devices # <<>>

\* C15: no failure of scanner.scan() (non-zero exit, command not found, timeout) ends
\* scan_loop: the failed cycle goes to its sleep, and after the sleep another cycle
\* starts.
C15_ScanFailureKeepsLoop ==
    /\ [](scan.pc # "dead")
    /\ [][\A exc \in ScanFailures : ScanFail(exc) => scan'.pc = "sleep"]_vars
    /\ (scan.pc = "sleep" /\ scan.exc \in ScanFailures) ~> (scan.pc = "scan")

\* a cycle has ended in a timeout of the scan command
C15_Witness == scan.pc = "sleep" /\ scan.exc = "TimeoutExpired"

\* C16: within one cycle notify_new is called at most once for any MAC, also when the
\* scan result holds the MAC more than once.
C16_NotifyOncePerMac == \A m \in DOMAIN notified : notified[m] <= 1

\* what the registry has for the MAC of the block command being handled
OpRecord == file.devices[upper(op.mac)]
SessionsOf(ents, m) == {i \in DOMAIN ents : ents[i].mac = m}

\* C17: with blocking enabled, a block command for a MAC whose record has no ip starts
\* no session and leaves the record blocked; a block command for a MAC without a
\* session whose record has an ip (a scan has upserted it) starts exactly one session,
\* and its task targets that ip.
C17_BlockDeferredUntilIpKnown ==
    [][(block_enable /\ AddBlockApply(TRUE))
          => /\ OpRecord.block = TRUE
             /\ IF ~Truthy(Get(OpRecord.ip))
                    THEN UNCHANGED <<entries, tasks>>
                ELSE upper(op.mac) \notin Keys(entries)
                        => /\ Cardinality(SessionsOf(entries', upper(op.mac))) = 1
                           /\ tasks'[EntryOf(entries', upper(op.mac)).task].ip
                                 = OpRecord.ip
                           /\ Cardinality({s \in Slots : tasks'[s].mac = upper(op.mac)})
                                 = 1]_vars

\* a MAC whose block command was deferred for want of an ip has, after a scan, a
\* session on the ip on file
C17_Witness ==
    \E m \in deferred :
        /\ op.apply = "ok"
        /\ m \in Keys(entries)
        /\ Truthy(Get(file.devices[m].ip))
        /\ tasks[EntryOf(entries, m).task].ip = file.devices[m].ip

\* C18: a block command that started no session (no ip on file, blocking disabled,
\* block() failed) does not answer the operator with the success message.
C18_FailedBlockNotReportedAsSuccess ==
    op.apply \in {"ValueError", "disabled", "no data"} => op.reply # "Bloqueado"

\* ------------------------------------------------------------------ upsert, unallow, unblock
\* d without its last_seen values
WithoutLastSeen(d) == [k \in DOMAIN d |-> [d[k] EXCEPT !.last_seen = NoTime]]

\* C19: upsert_device is idempotent up to last_seen: once upsert_device(mac, ip,
\* vendor) has been applied, applying it again, at that time or later, gives the same
\* document but for last_seen.
C19_UpsertIdempotent ==
    [][\A m \in MacInputs, ip \in IpInputs, v \in VendorInputs :
          UpsertDevice(m, ip, v, TRUE)
              => \A t \in clock'..MaxTime :
                    WithoutLastSeen(upsert_device(file'.devices, m, ip, v, t, t))
                        = WithoutLastSeen(file'.devices)]_vars

\* an upsert without a vendor has acted, after time has passed, on a record that has
\* a vendor
C19_Witness ==
    \E k \in DOMAIN file.devices :
        /\ Rec(k).vendor = "Acme" /\ Rec(k).ip = None
        /\ Rec(k).first_seen # NoTime /\ Rec(k).first_seen < Rec(k).last_seen

\* the document after the call differs from the one before in at most the flag of
\* the record of mac, which is false afterwards
ClearsOnly(mac, flag) ==
    IF upper(mac) \notin DOMAIN file.devices
        THEN file' = file
    ELSE /\ DOMAIN file'.devices = DOMAIN file.devices
         /\ \A k \in DOMAIN file.devices \ {upper(mac)} : file'.devices[k] = file.devices[k]
         /\ file'.devices[upper(mac)] = [file.devices[upper(mac)] EXCEPT ![flag] = FALSE]
         /\ file'.block_applied = file.block_applied

\* C20: unallow(mac) and unblock(mac) create no record and change nothing when mac has
\* no record; otherwise unallow sets only allow of that record to false and unblock
\* only block, every other field and every other record staying as it was.
C20_UnallowUnblockFrame ==
    [][\A m \in MacInputs :
          /\ Unallow(m, TRUE) => ClearsOnly(m, "allow")
          /\ Unblock(m, TRUE) => ClearsOnly(m, "block")]_vars

\* unallow has acted on an allowed record, next to the record of another MAC
C20_Witness ==
    /\ "AA:02" \in DOMAIN file.devices
    /\ \E k \in DOMAIN file.devices \ {"AA:02"} :
           ~Rec(k).allow /\ ~Rec(k).block /\ Rec(k).name = "tv" /\ Rec(k).first_seen = NoTime

\* C21: no operation of the Store removes a record: from one step to the next the
\* set of MAC keys of the document stays or grows.
C21_KeysOnlyGrow ==
    [][DOMAIN file.devices \subseteq DOMAIN file'.devices]_vars

\* unblock and unallow have acted on a record that is still there, next to another
C21_Witness ==
    /\ Cardinality(DOMAIN file.devices) = 2
    /\ \E k \in DOMAIN file.devices \ {"AA:02"} :
           Rec(k).notes = "x" /\ ~Rec(k).block /\ ~Rec(k).allow

\* C24: upsert_device(mac, ip, vendor) sets ip to the ip it is given, None included,
\* and vendor to the vendor it is given when that is not empty, keeping the record's
\* vendor otherwise; name, first_seen, allow, block and notes of a record that exists,
\* and every other record, stay as they were.
C24_UpsertFrame ==
    [][\A m \in MacInputs, ip \in IpInputs, v \in VendorInputs :
          UpsertDevice(m, ip, v, TRUE)
              => LET k == upper(m) IN
                 /\ Rec(k)'.ip = ip
                 /\ Rec(k)'.vendor = IF Truthy(v) THEN v
                                     ELSE IF Present(k) THEN Get(Rec(k).vendor) ELSE v
                 /\ Present(k)
                       => /\ Rec(k)'.name = Rec(k).name
                          /\ Rec(k)'.first_seen = Rec(k).first_seen
                          /\ Rec(k)'.allow = Rec(k).allow
                          /\ Rec(k)'.block = Rec(k).block
                          /\ Rec(k)'.notes = Rec(k).notes
                 /\ DOMAIN file'.devices = DOMAIN file.devices \cup {k}
                 /\ \A j \in DOMAIN file.devices \ {k} : Rec(j)' = Rec(j)]_vars

\* an upsert with ip None and no vendor has acted on a blocked, named record that
\* had a vendor and notes, next to the record of another MAC
C24_Witness ==
    /\ "AA:02" \in DOMAIN file.devices
    /\ \E k \in DOMAIN file.devices \ {"AA:02"} :
           /\ Rec(k).ip = None /\ Rec(k).vendor = "Acme"
           /\ Rec(k).block /\ Rec(k).name = "tv" /\ Rec(k).notes = "x"

\* ------------------------------------------------------------------ event loop claims
\* C22: while a scan of the reconciliation cycle is in progress and no command is
\* being handled, an incoming command can be handled.
C22_ScanDoesNotStallCommands ==
    (scan.pc = "scanning" /\ op.pc = "idle")
        => ENABLED (\E m \in AppMacs : AddAllow(m, TRUE))

\* C23: when a cycle whose scan succeeded (and whose registry writes succeeded) is
\* over, notify_new was called for a scanned MAC if and only if the MAC was neither in
\* known_allow nor in known_block.
C23_NotifiedIffUnclassified ==
    (scan.pc = "sleep" /\ scan.exc \notin ScanFailures \cup {"OSError"})
        => \A m \in scan.seen :
              notified[m] > 0 <=> m \notin (scan.known_allow \cup scan.known_block)

\* C30: whenever no command is being handled, every MAC with an entry in the blocker
\* has block = true in the registry.
C30_SessionImpliesBlocked ==
    op.pc = "idle"
        => \A m \in Keys(entries) : m \in DOMAIN file.devices /\ file.devices[m].block

\* ------------------------------------------------------------------ pure functions
\* the reported texts that mean "unresolved", whatever their letter case
SentinelTexts == {T_unknown, T_Unknown, T_p_unknown, T_p_UNKNOWN}

\* C25: the active strategy replaces a reported vendor that is empty or an unresolved
\* sentinel (in any letter case) by the lookup result for the MAC and returns any other
\* reported vendor as it is; normalization on its own does the same for the text with
\* its outer whitespace removed; the passive strategy always gives the lookup result.
C25_VendorNormalization ==
    LET found == pure.table[pure.mac]
    IN  /\ pure.fn = "_scan_arp_scan"
            => pure.out = IF pure.vendor \in SentinelTexts THEN found ELSE pure.vendor
        /\ pure.fn = "_scan_ip_neigh" => pure.out = found
        /\ pure.fn = "_normalize_vendor"
            => \E c \in VendorCores \cup {NoneText}, l \in 0..MaxPad, r \in 0..MaxPad :
                  /\ pure.vendor = IF c = NoneText THEN c ELSE Pad(c, l, r)
                  /\ pure.out = IF c \in SentinelTexts \cup {<<>>, NoneText} THEN found ELSE c

\* a capitalised sentinel reported for a MAC the tables know, and replaced
C25_Witness ==
    /\ pure.fn = "_scan_arp_scan"
    /\ pure.vendor = T_p_UNKNOWN
    /\ pure.out = T_AcmeCorp

\* C26: the status is BLOCK when blocked is true, otherwise ALLOW when allowed is true,
\* otherwise NEW, whatever the two flags are (missing included), and the CLI and the bot
\* derive the same status from the same record.
C26_DerivedStatus ==
    LET expected == IF pure.data.block = "True" THEN "BLOCK"
                    ELSE IF pure.data.allow = "True" THEN "ALLOW"
                    ELSE "NEW"
    IN  /\ pure.cli # "" => pure.cli = expected
        /\ pure.bot # "" => pure.bot = expected
        /\ (pure.cli # "" /\ pure.bot # "") => pure.cli = pure.bot

\* both flags set, rendered by both
C26_Witness ==
    /\ pure.data = [allow |-> "True", block |-> "True"]
    /\ pure.cli = "BLOCK"
    /\ pure.bot = "BLOCK"

\* ------------------------------------------------------------------ the spoof loop
\* C27: a send that raises inside a block-session task does not end the session: the
\* entry stays, the task goes on to its wait, and a task at its wait that was not
\* stopped can always send again.
C27_FailedSendKeepsSession ==
    /\ [][\A s \in Slots :
            (JobSend(s, FALSE) /\ tasks[s].st = "sending" /\ ~tasks[s].cancel)
                => /\ tasks'[s].st = "waiting" /\ ~tasks'[s].cancel
                   /\ entries' = entries
                   /\ tasks[s].mac \in Keys(entries')]_vars
    /\ [](\A s \in Slots :
            (tasks[s].st = "waiting" /\ ~tasks[s].cancel) => ENABLED WaitTimeout(s))

\* a task whose send raised is at its wait, not stopped, and its session is active
C27_Witness ==
    \E s \in Slots :
        /\ tasks[s].logged /\ tasks[s].st = "waiting" /\ ~tasks[s].cancel
        /\ tasks[s].mac \in Keys(entries)

\* C28: once the stop of a session is raised its task terminates: it queues no
\* further send, so at most the send already handed to a thread still goes out, and
\* an awaited unblock(mac), from a command or from shutdown, returns.
C28_StopTerminates ==
    /\ [][\A s \in Slots :
            (tasks[s].stop /\ tasks'[s].stop /\ tasks[s].job # "queued")
                => tasks'[s].job # "queued"]_vars
    /\ \A s \in Slots : (Live(s) /\ tasks[s].stop) ~> ~Live(s)
    /\ (cmd.pc = "await") ~> (cmd.pc = "idle")
    /\ (phase = "shutdown") ~> (phase = "exited")

\* a command's unblock has returned while the send its task had handed to a thread is
\* still running
C28_Witness ==
    /\ cmd.pc = "idle"
    /\ \E s \in Slots : tasks[s].stop /\ tasks[s].st = "done" /\ tasks[s].job = "running"
          /\ tasks[s].mac \in stopped

\* ------------------------------------------------------------------ keys
\* the canonical form of a spelling: uppercase, colon-separated
canonical(mac) == IF mac \in {"aa:01", "AA:01", "aa-01", "AA-01"} THEN "AA:01" ELSE mac

\* C29: every key of the registry is a MAC in canonical form, so no two keys are
\* spellings of one MAC.
C29_KeysCanonical ==
    /\ \A k \in DOMAIN file.devices : canonical(k) = k
    /\ \A k1, k2 \in DOMAIN file.devices : canonical(k1) = canonical(k2) => k1 = k2

\* ------------------------------------------------------------------ reconciliation
\* C31: the address an active session targets is the address on file for its MAC.
C31_SessionTargetsIpOnFile ==
    \A i \in DOMAIN entries :
        /\ entries[i].mac \in DOMAIN file.devices
        /\ tasks[entries[i].task].ip = Get(file.devices[entries[i].mac].ip)

\* C32: a cycle whose scan returned and whose notifier raised has upserted every
\* entry of the scan result: each of its MACs has a record.
C32_WholeSnapshotUpserted ==
    (scan.pc = "sleep" /\ scan.exc = "TelegramError")
        => \A m \in scan.seen : m \in DOMAIN file.devices

BlockedOnFile(m) == m \in DOMAIN file.devices /\ file.devices[m].block = TRUE

\* C33: with blocking enabled, a MAC whose block command was deferred for want of an
\* address, and whose record is blocked and now has one, gets an active session
\* unless it is unblocked or a further command arrives first.
C33_BlockedGetsSession ==
    \A m \in {upper(x) : x \in AppMacs} :
        (/\ block_enable /\ op.pc = "idle" /\ m \in deferred
         /\ BlockedOnFile(m)
         /\ Truthy(Get(file.devices[m].ip)))
            ~> (m \in Keys(entries) \/ ~BlockedOnFile(m) \/ op.pc # "idle")

\* ------------------------------------------------------------------ two processes
\* C34: with the daemon and a CLI command each holding a Store on the same data
\* directory, the real path always holds one complete document, and when both have run
\* one mutating method to its end the document is what the two methods give one after
\* the other, in one of the two orders.
C34_ProcessesLoseNothing ==
    /\ file.parses
    /\ (\A t \in Threads : pc[t] = "done" /\ res[t] = "ok")
          => file.devices \in { Apply(call[2], Apply(call[1], base)),
                                Apply(call[1], Apply(call[2], base)) }

====
